---- MODULE Spec2Model ----
(***************************************************************************)
(* lunar-boot: the early-boot core.                                        *)
(*                                                                         *)
(*   - src/src/mem/start.rs : the boot ("start") bump arena and its token  *)
(*   - src/src/align.rs     : align_up!                                    *)
(*   - src/src/fdt.rs       : the flattened-devicetree stream reader and   *)
(*                            the query engine built on it                 *)
(*                                                                         *)
(* The specifications share the module's variables: SpecArena drives the   *)
(* arena operations (init, alloc_slice, drop of the token), SpecFdt the    *)
(* devicetree queries over a family of encoded trees, SpecProp the typed   *)
(* property accessors, SpecTape the queries over arbitrary struct tapes,   *)
(* SpecInit fdt::init() and fdt::get(), SpecStream the node iterator.      *)
(***************************************************************************)
EXTENDS Integers, Sequences, FiniteSets, TLC

VARIABLES
    \* ---- mem::start ----
    arena_start,    \* address of the linker symbol __arena
    arena_end,      \* address of the linker symbol __earena
    INITIALIZED,    \* static INITIALIZED: AtomicBool
    ARENA,          \* static ARENA: Option<Arena>  (None or [cursor, end])
    token,          \* the Token value: "none" | "live" | "dropped"
    held,           \* slices the caller obtained and may still use (in order)
    halted,         \* "none", or the message of the panic that halted the boot
    initCount,      \* number of init() calls that returned a Token
    last,           \* the last arena call: what was asked, on what, the outcome
    \* ---- fdt ----
    fdt,            \* the blob under query: [tape, strings] and the tree it encodes
    q,              \* the last devicetree query and its result
    SYSTEM_FDT,     \* static SYSTEM_FDT: the cell's Option<FdtView>
    it              \* an FdtStream being iterated: its tape, its cursor, its yield

vars == <<arena_start, arena_end, INITIALIZED, ARENA, token, held, halted,
          initCount, last, fdt, q, SYSTEM_FDT, it>>

\* Option<T>: None or Some(v). Panic stands for a call that did not return.
None == [tag |-> "None"]
Some(x) == [tag |-> "Some", v |-> x]
Panic == [tag |-> "Panic"]

(***************************************************************************)
(* Bounds of the model.                                                    *)
(***************************************************************************)
\* usize is AddrBits wide: addresses and sizes are computed modulo 2^AddrBits.
AddrBits == 6
\* __arena is drawn from 0 .. MaxArenaStart.
MaxArenaStart == 3
\* __earena - __arena is drawn from 0 .. MaxArenaLen.
MaxArenaLen == 9
\* alloc_slice's count is drawn from 0 .. MaxCount.
MaxCount == 4
\* At most MaxAllocs slices are handed out in one run.
MaxAllocs == 3

UsizeRange == 2 ^ AddrBits
IsizeMax == (UsizeRange \div 2) - 1
\* Wrapping usize arithmetic of the arena's address computations.
Usize(x) == x % UsizeRange

(***************************************************************************)
(* align.rs                                                                *)
(***************************************************************************)
\* x & !mask for mask = how - 1, how a power of two: clear the low bits.
ClearLow(x, how) == x - (x % how)

\* align_up!(what, how): (what + mask) & !mask, how a power of two (the
\* macro's assert). The callers reduce the sum to their word width.
align_up(what, how) == ClearLow(what + (how - 1), how)

(***************************************************************************)
(* mem/start.rs                                                            *)
(***************************************************************************)
\* Element types T of alloc_slice::<T>: [size, align] with size a multiple of
\* align, as for every Rust type (a ZST, u8, u16, u32, [u32; 2]).
ElemTypes == { [size |-> 0, align |-> 1], [size |-> 1, align |-> 1],
               [size |-> 2, align |-> 2], [size |-> 4, align |-> 4],
               [size |-> 8, align |-> 4] }

\* core::alloc::Layout::array::<T>(count): Err when the byte size exceeds
\* isize::MAX, which alloc_slice turns into a panic by unwrap().
LayoutArrayOk(ty, count) == ty.size * count <= IsizeMax

PanicDoubleInit == "Double initialization of start arena"
PanicGone == "Arena no longer accessible"
PanicOom == "OOM in start arena"
PanicLayout == "called Result::unwrap() on an Err value: LayoutError"

\* The state machine of spec 4.5, read off the two statics.
ArenaState ==
    IF ~INITIALIZED THEN "Uninitialized"
    ELSE IF ARENA # None THEN "Active" ELSE "Reclaimed"

\* The lifetime parameter of the token init() returns: Token<'static>.
TokenParam == "static"

\* The lifetime of the slice alloc_slice returns: &'a mut [T], 'a being the
\* token's parameter, not the borrow of the token value (&self).
SliceLifetime == TokenParam

NoCall == [op |-> "none", before |-> "Uninitialized", cursor |-> 0,
           ty |-> [size |-> 0, align |-> 1], count |-> 0, result |-> "none",
           ptr |-> 0]

\* INITIALIZED.swap(true, SeqCst): the value the guard held before.
GuardSwap(flag) == flag

\* init(): the guard is swapped first; a second call panics before ARENA is
\* touched, the first stores the bump state and returns the token.
init ==
    /\ halted = "none"
    /\ INITIALIZED' = TRUE
    /\ IF GuardSwap(INITIALIZED)
       THEN /\ halted' = PanicDoubleInit
            /\ last' = [NoCall EXCEPT !.op = "init", !.before = ArenaState,
                                      !.result = "panic"]
            /\ UNCHANGED <<ARENA, token, initCount>>
       ELSE /\ ARENA' = Some([cursor |-> arena_start, end |-> arena_end])
            /\ token' = "live"
            /\ initCount' = initCount + 1
            /\ last' = [NoCall EXCEPT !.op = "init", !.before = ArenaState,
                                      !.result = "token"]
            /\ UNCHANGED halted
    /\ UNCHANGED <<arena_start, arena_end, held, fdt, q, SYSTEM_FDT, it>>

\* The OOM test with the aligned start compared instead of the block's end.
OomStartOnly(cursor, end, bound) == cursor > bound

\* if end > arena.end { panic!("OOM in start arena") }
Oom(cursor, end, bound) == end > bound

\* arena.cursor = end, with the aligned start stored instead.
BumpToStart(cursor, end) == cursor

\* arena.cursor = end
Bump(cursor, end) == end

\* Token::alloc_slice::<T>(count), through a token that was issued: the live
\* one, or a stale copy of a released one (the case Drop's comment guards).
alloc_slice(ty, count) ==
    /\ halted = "none"
    /\ token # "none"
    /\ Len(held) < MaxAllocs
    /\ LET call == [NoCall EXCEPT !.op = "alloc", !.before = ArenaState,
                                  !.ty = ty, !.count = count,
                                  !.cursor = IF ARENA = None THEN 0
                                             ELSE ARENA.v.cursor]
       IN
       IF ~LayoutArrayOk(ty, count)
       THEN /\ halted' = PanicLayout
            /\ last' = [call EXCEPT !.result = "panic"]
            /\ UNCHANGED <<ARENA, held>>
       ELSE IF ARENA = None
       THEN /\ halted' = PanicGone
            /\ last' = [call EXCEPT !.result = "panic"]
            /\ UNCHANGED <<ARENA, held>>
       ELSE LET size == ty.size * count
                cursor == Usize(align_up(ARENA.v.cursor, ty.align))
                end == Usize(cursor + size)
            IN IF Oom(cursor, end, ARENA.v.end)
               THEN /\ halted' = PanicOom
                    /\ last' = [call EXCEPT !.result = "panic"]
                    /\ UNCHANGED <<ARENA, held>>
               ELSE /\ ARENA' = [ARENA EXCEPT !.v.cursor = Bump(cursor, end)]
                    /\ held' = Append(held, [ptr |-> cursor, size |-> size,
                                             align |-> ty.align,
                                             lt |-> SliceLifetime])
                    /\ last' = [call EXCEPT !.result = "slice", !.ptr = cursor]
                    /\ UNCHANGED halted
    /\ UNCHANGED <<arena_start, arena_end, INITIALIZED, token, initCount, fdt, q, SYSTEM_FDT, it>>

\* The slices the borrow checker lets the caller keep across the token's drop:
\* those whose lifetime is not a borrow of the token value.
Outlive(s) == SelectSeq(s, LAMBDA x : x.lt = "static")

\* Drop that also re-arms the one-shot guard.
DropStoreRearm == [arena |-> None, guard |-> FALSE]

\* Drop that leaves the bump state in place.
DropStoreKeep == [arena |-> ARENA, guard |-> INITIALIZED]

\* Drop for Token: *ARENA.0.get() = None; INITIALIZED is left as it is.
DropStore == [arena |-> None, guard |-> INITIALIZED]

\* The token goes out of scope (or is dropped explicitly).
drop ==
    /\ halted = "none"
    /\ token = "live"
    /\ ARENA' = DropStore.arena
    /\ INITIALIZED' = DropStore.guard
    /\ token' = "dropped"
    /\ held' = Outlive(held)
    /\ last' = [NoCall EXCEPT !.op = "drop", !.before = ArenaState,
                              !.result = "unit"]
    /\ UNCHANGED <<arena_start, arena_end, halted, initCount, fdt, q, SYSTEM_FDT, it>>

NoFdt == [tape |-> <<>>, strings |-> <<>>]
NoQuery == [op |-> "none"]
NoStream == [tape |-> <<>>, off |-> 0]

\* The reserved region lies in the lower half of the address space (physical
\* addresses of a board's RAM); its start need not be aligned. No devicetree
\* is under query.
InitArena ==
    /\ arena_start \in 0..MaxArenaStart
    /\ arena_end \in arena_start..(arena_start + MaxArenaLen)
    /\ arena_end <= IsizeMax
    /\ INITIALIZED = FALSE
    /\ ARENA = None
    /\ token = "none"
    /\ held = <<>>
    /\ halted = "none"
    /\ initCount = 0
    /\ last = NoCall
    /\ fdt = NoFdt
    /\ q = NoQuery
    /\ SYSTEM_FDT = None
    /\ it = NoStream

NextArena ==
    \/ init
    \/ \E ty \in ElemTypes, count \in 0..MaxCount : alloc_slice(ty, count)
    \/ drop

SpecArena == InitArena /\ [][NextArena]_vars

(***************************************************************************)
(* Claims about the boot arena (checked under SpecArena).                  *)
(***************************************************************************)
\* The bytes [p, p + size) of a slice.
Range(s) == s.ptr .. (s.ptr + s.size - 1)

\* The smallest multiple of how that is >= x, in unbounded integers.
RoundUp(x, how) == CHOOSE m \in x .. (x + how - 1) : m % how = 0

LastSize == last.ty.size * last.count

\* C1: at most one init() ever returns a token; an init() called when the
\* arena is Active or Reclaimed panics with "Double initialization of start
\* arena"; once the token is released the arena is Reclaimed for good.
C1_SingleInit ==
    /\ initCount <= 1
    /\ (last.op = "init" /\ last.before # "Uninitialized")
          => (last.result = "panic" /\ halted = PanicDoubleInit)
    /\ (last.op = "init" /\ last.before = "Uninitialized")
          => (last.result = "token" /\ ArenaState = "Active")
    /\ token = "dropped" => ArenaState = "Reclaimed"
    /\ ArenaState = "Active" => token = "live"

\* An init() attempted after the token was released has been refused.
C1_Witness ==
    /\ last.op = "init"
    /\ last.before = "Reclaimed"
    /\ halted = PanicDoubleInit
    /\ initCount = 1

C4_Reclaimed ==
    /\ last.op = "drop" => (last.before = "Active" /\ ARENA = None
                              /\ ArenaState = "Reclaimed")
    /\ (last.op = "alloc" /\ last.before = "Reclaimed") =>
          /\ last.result = "panic"
          /\ halted = IF LayoutArrayOk(last.ty, last.count)
                      THEN PanicGone ELSE PanicLayout
    /\ (last.op = "alloc" /\ last.result = "slice") => last.before = "Active"
    /\ token = "dropped" => ARENA = None

\* An allocation through the released token has been refused.
C4_Witness ==
    /\ token = "dropped"
    /\ last.op = "alloc"
    /\ last.before = "Reclaimed"
    /\ halted = PanicGone

\* C5: once the token has been released the caller holds no usable slice
\* obtained from the arena.
C5_NoSliceOutlivesToken == token = "dropped" => held = <<>>

(***************************************************************************)
(* fdt.rs: the binary stream reader.                                       *)
(*                                                                         *)
(* A tape is a sequence of bytes (0..255); code offsets are 0-based, so    *)
(* the byte at offset off is tape[off + 1]. A str is the sequence of its   *)
(* bytes. Offsets are usize (64 bits), far above any sum formed here.      *)
(* A function body is split where it binds a local: the operator named     *)
(* f_x continues f once its local x has been computed.                     *)
(***************************************************************************)
\* enum FdtToken
BeginNode == 1
EndNode == 2
Prop == 3
End == 9

\* FdtView's parent_address_cells() and parent_size_cells().
RootAddressCells == 2
RootSizeCells == 1

\* slice.get(a..b)
Get(bytes, a, b) ==
    IF a <= b /\ b <= Len(bytes) THEN Some(SubSeq(bytes, a + 1, b)) ELSE None

\* u32::from_be_bytes
from_be_bytes(b) == ((b[1] * 256 + b[2]) * 256 + b[3]) * 256 + b[4]

\* str::from_utf8(bytes).is_ok(), for ASCII and two-byte sequences (longer
\* sequences do not occur in the tapes modelled).
RECURSIVE from_utf8_ok(_)
from_utf8_ok(b) ==
    IF b = <<>> THEN TRUE
    ELSE IF b[1] < 128 THEN from_utf8_ok(Tail(b))
    ELSE /\ b[1] >= 194 /\ b[1] <= 223
         /\ Len(b) >= 2 /\ b[2] >= 128 /\ b[2] <= 191
         /\ from_utf8_ok(Tail(Tail(b)))

\* read_from_tape_u32: tape[off..off + 4] panics when the range leaves the tape.
read_from_tape_u32(tape, off) ==
    IF off + 4 <= Len(tape)
    THEN Some(from_be_bytes(SubSeq(tape, off + 1, off + 4)))
    ELSE Panic

\* while bytes.get(end)? != &0 { end += 1 }: the offset of the NUL, or None
\* when the scan leaves the slice.
RECURSIVE ScanNul(_, _)
ScanNul(bytes, end) ==
    IF end >= Len(bytes) THEN None
    ELSE IF bytes[end + 1] = 0 THEN Some(end)
    ELSE ScanNul(bytes, end + 1)

\* A step of the stream: [r: what the call returned, off: the cursor after it]
Step(r, off) == [r |-> r, off |-> off]

\* FdtStream::next_u32
next_u32_bytes(off, bytes) ==
    IF bytes = None THEN Step(None, off)
    ELSE Step(Some(from_be_bytes(bytes.v)), off + 4)

next_u32(tape, off) == next_u32_bytes(off, Get(tape, off, off + 4))

\* str::from_utf8(&bytes[start..end]).ok()
str_between(bytes, start, end) ==
    IF from_utf8_ok(SubSeq(bytes, start + 1, end))
    THEN Some(SubSeq(bytes, start + 1, end))
    ELSE None

\* FdtStream::next_str
next_str_ret(off, end, ret) ==
    IF ret = None THEN Step(None, off)
    ELSE Step(ret, align_up(end + 1, 4))

next_str_end(tape, off, end) ==
    IF end = None THEN Step(None, off)
    ELSE next_str_ret(off, end.v, str_between(tape, off, end.v))

next_str(tape, off) == next_str_end(tape, off, ScanNul(tape, off))

\* FdtStream::skip_prop
skip_prop_soff(len, soff) ==
    IF soff.r = None THEN Step(None, soff.off)
    ELSE Step(Some(<<>>), align_up(soff.off + len, 4))

skip_prop_len(tape, len) ==
    IF len.r = None THEN Step(None, len.off)
    ELSE skip_prop_soff(len.r.v, next_u32(tape, len.off))

skip_prop(tape, off) == skip_prop_len(tape, next_u32(tape, off))

\* FdtStream::string_at_off
string_at_off_end(strings, off, end) ==
    IF end = None THEN None ELSE str_between(strings, off, end.v)

string_at_off(strings, off) ==
    string_at_off_end(strings, off, ScanNul(strings, off))

\* FdtStream::node_end_off: the loop, with its locals depth and prev.
RECURSIVE node_end_loop(_, _, _, _)
RECURSIVE node_end_token(_, _, _, _)
RECURSIVE node_end_step(_, _, _)
node_end_step(tape, depth, step) ==
    IF step.r = None THEN None
    ELSE node_end_loop(tape, step.off, depth, step.off)

node_end_token(tape, depth, prev, t) ==
    IF t.r = None THEN None
    ELSE IF t.r.v = BeginNode
    THEN node_end_step(tape, depth + 1, next_str(tape, t.off))
    ELSE IF t.r.v = EndNode THEN node_end_loop(tape, t.off, depth - 1, t.off)
    ELSE IF t.r.v = Prop THEN node_end_step(tape, depth, skip_prop(tape, t.off))
    ELSE IF t.r.v = End THEN Some(prev)
    ELSE node_end_loop(tape, t.off, depth, t.off)

node_end_loop(tape, off, depth, prev) ==
    IF depth <= 0 THEN Some(prev)
    ELSE node_end_token(tape, depth, prev, next_u32(tape, off))

node_end_off(tape, off) == node_end_loop(tape, off, 1, off)

\* The cursor put back to the top of the tape once the end has been looked up.
OffRewound(start, end) == 0

\* The stream's cursor when next() returns a node handle: self.off was last
\* written by next_str; the end offset is computed on the clone end_lookup.
OffAfterNode(start, end) == start

\* Iterator for FdtStream: next(). The step's r is Some(node), None or Panic.
RECURSIVE stream_next(_, _, _, _)
RECURSIVE stream_token(_, _, _, _)
RECURSIVE stream_prop(_, _, _, _)
stream_node(tape, paddr, psize, name, start, end) ==
    IF end = None THEN Step(None, start)
    ELSE IF end.v > Len(tape) THEN Step(Panic, start)
    ELSE Step(Some([name |-> name, paddr_cells |-> paddr,
                    psize_cells |-> psize,
                    body |-> SubSeq(tape, start + 1, end.v)]),
              OffAfterNode(start, end.v))

stream_name(tape, paddr, psize, name) ==
    IF name.r = None THEN Step(None, name.off)
    ELSE stream_node(tape, paddr, psize, name.r.v, name.off,
                     node_end_off(tape, name.off))

stream_prop(tape, paddr, psize, p) ==
    IF p.r = None THEN Step(None, p.off)
    ELSE stream_next(tape, p.off, paddr, psize)

stream_token(tape, paddr, psize, t) ==
    IF t.r = None THEN Step(None, t.off)
    ELSE IF t.r.v = BeginNode
    THEN stream_name(tape, paddr, psize, next_str(tape, t.off))
    ELSE IF t.r.v = Prop
    THEN stream_prop(tape, paddr, psize, skip_prop(tape, t.off))
    ELSE IF t.r.v = End THEN Step(None, t.off)
    ELSE stream_next(tape, t.off, paddr, psize)

stream_next(tape, off, paddr, psize) ==
    stream_token(tape, paddr, psize, next_u32(tape, off))

\* The handles a stream yields until next() first returns None (where find
\* and fold stop), and how the sequence ended: [nodes, end: None | Panic].
RECURSIVE stream_nodes(_, _, _, _)
stream_prepend(node, rest) ==
    [nodes |-> <<node>> \o rest.nodes, end |-> rest.end]

stream_collect(tape, paddr, psize, n) ==
    IF n.r.tag # "Some" THEN [nodes |-> <<>>, end |-> n.r]
    ELSE stream_prepend(n.r.v, stream_nodes(tape, n.off, paddr, psize))

stream_nodes(tape, off, paddr, psize) ==
    stream_collect(tape, paddr, psize, stream_next(tape, off, paddr, psize))

(***************************************************************************)
(* fdt.rs: trait FdtStreamable, the query engine.                          *)
(*                                                                         *)
(* An entity e is an FdtNode [name, paddr_cells, psize_cells, body] or the *)
(* FdtView, written as a record of the same shape whose body is dt_struct  *)
(* and whose parent cells are the defaults. The string table is one per    *)
(* blob and is passed beside the entity.                                   *)
(***************************************************************************)
\* "#address-cells", "#size-cells", "phandle", "reg" as str.
StrAddressCells == <<35, 97, 100, 100, 114, 101, 115, 115, 45, 99, 101, 108, 108, 115>>
StrSizeCells == <<35, 115, 105, 122, 101, 45, 99, 101, 108, 108, 115>>
StrPhandle == <<112, 104, 97, 110, 100, 108, 101>>
StrReg == <<114, 101, 103>>
\* "stdout-path", the property kentry reads.
StrStdoutPath == <<115, 116, 100, 111, 117, 116, 45, 112, 97, 116, 104>>

\* FdtStreamable::shallow_prop_raw: the loop over the entity's own tape.
RECURSIVE shallow_prop_loop(_, _, _, _)
RECURSIVE shallow_prop_name(_, _, _, _, _, _)
RECURSIVE shallow_prop_header(_, _, _, _, _, _)
RECURSIVE shallow_prop_token(_, _, _, _, _)
shallow_prop_name(tape, strings, off, target, len, name) ==
    IF name = None THEN None
    ELSE IF name.v = target THEN Get(tape, off, off + len)
    ELSE shallow_prop_loop(tape, strings, align_up(off + len, 4), target)

shallow_prop_header(tape, strings, off, target, len, soff) ==
    IF len = Panic \/ soff = Panic THEN Panic
    ELSE shallow_prop_name(tape, strings, off + 8, target, len.v,
                           string_at_off(strings, soff.v))

shallow_prop_token(tape, strings, off, target, tok) ==
    IF tok = Prop
    THEN shallow_prop_header(tape, strings, off, target,
                             read_from_tape_u32(tape, off),
                             read_from_tape_u32(tape, off + 4))
    ELSE IF tok = BeginNode \/ tok = EndNode THEN None
    ELSE shallow_prop_loop(tape, strings, off, target)

shallow_prop_loop(tape, strings, off, target) ==
    IF ~(off + 4 <= Len(tape)) THEN None
    ELSE shallow_prop_token(tape, strings, off + 4, target,
                            read_from_tape_u32(tape, off).v)

shallow_prop_raw(e, strings, target) ==
    shallow_prop_loop(e.body, strings, 0, target)

\* .map(|bytes| bytes[0..4].try_into().ok().map(u32::from_be_bytes)).flatten():
\* the index bytes[0..4] panics on a payload shorter than four bytes.
first_u32(raw) ==
    IF raw.tag # "Some" THEN raw
    ELSE IF Len(raw.v) < 4 THEN Panic
    ELSE Some(from_be_bytes(SubSeq(raw.v, 1, 4)))

\* FdtStreamable::shallow_prop_u32
shallow_prop_u32(e, strings, target) ==
    first_u32(shallow_prop_raw(e, strings, target))

\* Option::unwrap_or, a panic in the receiver passing through.
unwrap_or(opt, default) ==
    IF opt = Panic THEN Panic
    ELSE IF opt = None THEN Some(default) ELSE opt

\* FdtStreamable::address_cells / size_cells: Some(n), or Panic.
address_cells(e, strings) ==
    unwrap_or(shallow_prop_u32(e, strings, StrAddressCells), e.paddr_cells)

size_cells(e, strings) ==
    unwrap_or(shallow_prop_u32(e, strings, StrSizeCells), e.psize_cells)

\* FdtStream::new
FdtStream_new(tape, addr, size) ==
    IF addr = Panic \/ size = Panic THEN Panic
    ELSE [tape |-> tape, off |-> 0, paddr_cells |-> addr.v,
          psize_cells |-> size.v]

\* FdtStreamable::stream, or Panic when reading the cell counts panics.
stream(e, strings) ==
    FdtStream_new(e.body, address_cells(e, strings), size_cells(e, strings))

\* The node handles a stream yields: [nodes, end], or Panic.
stream_all(st) ==
    IF st = Panic THEN Panic
    ELSE stream_nodes(st.tape, st.off, st.paddr_cells, st.psize_cells)

children(e, strings) == stream_all(stream(e, strings))

\* FdtStreamable::prop_raw: the loop over the stream's cursor.
RECURSIVE prop_raw_loop(_, _, _, _)
RECURSIVE prop_raw_token(_, _, _, _)
RECURSIVE prop_raw_len(_, _, _, _)
RECURSIVE prop_raw_soff(_, _, _, _, _)
RECURSIVE prop_raw_name(_, _, _, _, _, _)
prop_raw_name(tape, strings, target, len, off, name) ==
    IF name = None THEN None
    ELSE IF name.v = target THEN Get(tape, off, off + len)
    ELSE prop_raw_loop(tape, strings, align_up(off + len, 4), target)

prop_raw_soff(tape, strings, target, len, soff) ==
    IF soff.r = None THEN None
    ELSE prop_raw_name(tape, strings, target, len, soff.off,
                       string_at_off(strings, soff.r.v))

prop_raw_len(tape, strings, target, len) ==
    IF len.r = None THEN None
    ELSE prop_raw_soff(tape, strings, target, len.r.v,
                       next_u32(tape, len.off))

prop_raw_token(tape, strings, target, tok) ==
    IF tok.r = None THEN None
    ELSE IF tok.r.v = Prop
    THEN prop_raw_len(tape, strings, target, next_u32(tape, tok.off))
    ELSE IF tok.r.v = BeginNode \/ tok.r.v = EndNode THEN None
    ELSE prop_raw_loop(tape, strings, tok.off, target)

prop_raw_loop(tape, strings, off, target) ==
    prop_raw_token(tape, strings, target, next_u32(tape, off))

prop_raw_stream(st, strings, target) ==
    IF st = Panic THEN Panic
    ELSE prop_raw_loop(st.tape, strings, st.off, target)

prop_raw(e, strings, target) ==
    prop_raw_stream(stream(e, strings), strings, target)

\* FdtStreamable::prop_u32
prop_u32(e, strings, target) == first_u32(prop_raw(e, strings, target))

\* data.chunks_exact(4) mapped through u32::from_be_bytes.
RECURSIVE chunks_u32(_)
chunks_u32(data) ==
    IF Len(data) < 4 THEN <<>>
    ELSE <<from_be_bytes(SubSeq(data, 1, 4))>>
            \o chunks_u32(SubSeq(data, 5, Len(data)))

\* FdtStreamable::prop_cells
prop_cells_raw(raw) == IF raw.tag # "Some" THEN raw ELSE Some(chunks_u32(raw.v))

prop_cells(e, strings, target) == prop_cells_raw(prop_raw(e, strings, target))

\* target.strip_suffix('\0').unwrap_or(target)
strip_nul(target) ==
    IF Len(target) > 0 /\ target[Len(target)] = 0
    THEN SubSeq(target, 1, Len(target) - 1)
    ELSE target

\* The closure of node_by_name's find: &node.name == &target...
NameMatches(name, target) == name = strip_nul(target)

\* Iterator::find over the handles ns (from index i) for the name.
RECURSIVE find_name(_, _, _)
find_name(ns, i, target) ==
    IF i > Len(ns.nodes) THEN ns.end
    ELSE IF NameMatches(ns.nodes[i].name, target) THEN Some(ns.nodes[i])
    ELSE find_name(ns, i + 1, target)

node_by_name_in(ns, target) ==
    IF ns = Panic THEN Panic ELSE find_name(ns, 1, target)

\* FdtStreamable::node_by_name
node_by_name(e, strings, target) ==
    node_by_name_in(children(e, strings), target)

\* target.find(|c| c != '/'): the index of the first byte that is not '/'.
RECURSIVE find_not_slash(_, _)
find_not_slash(target, i) ==
    IF i >= Len(target) THEN None
    ELSE IF target[i + 1] # 47 THEN Some(i)
    ELSE find_not_slash(target, i + 1)

\* target.find('/'), as split_once uses it.
RECURSIVE find_slash(_, _)
find_slash(target, i) ==
    IF i >= Len(target) THEN None
    ELSE IF target[i + 1] = 47 THEN Some(i)
    ELSE find_slash(target, i + 1)

\* The last '/' of target at or after index i.
RECURSIVE rfind_slash(_, _, _)
rfind_slash(target, i, found) ==
    IF i >= Len(target) THEN found
    ELSE rfind_slash(target, i + 1, IF target[i + 1] = 47 THEN Some(i) ELSE found)

\* The two sides of target around the delimiter at index at.
split_at(target, at) ==
    IF at = None THEN None
    ELSE Some([head |-> SubSeq(target, 1, at.v),
               tail |-> SubSeq(target, at.v + 2, Len(target))])

\* target.rsplit_once('/'): the split taken at the last '/'.
rsplit_once(target) == split_at(target, rfind_slash(target, 0, None))

\* target.split_once('/')
split_once(target) == split_at(target, find_slash(target, 0))

\* FdtStreamable::node_by_path
RECURSIVE node_by_path(_, _, _)
RECURSIVE node_by_path_first(_, _, _, _)
RECURSIVE node_by_path_parts(_, _, _, _)
RECURSIVE node_by_path_head(_, _, _)
node_by_path_head(head, strings, tail) ==
    IF head.tag # "Some" THEN head
    ELSE node_by_path(head.v, strings, tail)

node_by_path_parts(e, strings, target, parts) ==
    IF parts # None
    THEN node_by_path_head(node_by_name(e, strings, parts.v.head), strings,
                           parts.v.tail)
    ELSE node_by_name(e, strings, target)

node_by_path_rest(e, strings, target) ==
    node_by_path_parts(e, strings, target, split_once(target))

node_by_path_first(e, strings, target, first) ==
    IF first = None THEN None
    ELSE node_by_path_rest(e, strings, SubSeq(target, first.v + 1, Len(target)))

node_by_path(e, strings, target) ==
    node_by_path_first(e, strings, target, find_not_slash(target, 0))

\* The closure of node_by_phandle's find:
\* node.prop_u32("phandle").is_some_and(|ph| id.get() == ph)
is_some_and_eq(ph, id) ==
    IF ph = Panic THEN Panic
    ELSE IF ph = None THEN Some(FALSE) ELSE Some(ph.v = id)

HasPhandle(node, strings, id) ==
    is_some_and_eq(prop_u32(node, strings, StrPhandle), id)

\* Iterator::find over the handles ns (from index i) for the phandle.
RECURSIVE find_phandle(_, _, _, _)
RECURSIVE find_phandle_hit(_, _, _, _, _)
find_phandle_hit(ns, strings, i, id, hit) ==
    IF hit = Panic THEN Panic
    ELSE IF hit.v THEN Some(ns.nodes[i])
    ELSE find_phandle(ns, strings, i + 1, id)

find_phandle(ns, strings, i, id) ==
    IF i > Len(ns.nodes) THEN ns.end
    ELSE find_phandle_hit(ns, strings, i, id,
                          HasPhandle(ns.nodes[i], strings, id))

\* FdtStreamable::node_by_phandle; fold_phandle is the or_else closure's
\* fold(None, |acc, node| acc.or(node.node_by_phandle(id))), whose argument
\* is evaluated for every node.
RECURSIVE node_by_phandle(_, _, _)
RECURSIVE node_by_phandle_in(_, _, _)
RECURSIVE node_by_phandle_found(_, _, _, _)
RECURSIVE fold_phandle(_, _, _, _, _)
RECURSIVE fold_phandle_sub(_, _, _, _, _, _)
\* Option::or
or(acc, other) == IF acc # None THEN acc ELSE other

fold_phandle_sub(ns, strings, i, id, acc, sub) ==
    IF sub = Panic THEN Panic
    ELSE fold_phandle(ns, strings, i + 1, id, or(acc, sub))

fold_phandle(ns, strings, i, id, acc) ==
    IF i > Len(ns.nodes) THEN (IF ns.end = Panic THEN Panic ELSE acc)
    ELSE fold_phandle_sub(ns, strings, i, id, acc,
                          node_by_phandle(ns.nodes[i], strings, id))

node_by_phandle_found(ns, strings, id, found) ==
    IF found # None THEN found
    ELSE fold_phandle(ns, strings, 1, id, None)

node_by_phandle_in(ns, strings, id) ==
    IF ns = Panic THEN Panic
    ELSE node_by_phandle_found(ns, strings, id, find_phandle(ns, strings, 1, id))

node_by_phandle(e, strings, id) ==
    node_by_phandle_in(children(e, strings), strings, id)

\* A u64 is the pair <<high cell, low cell>> of its 32-bit halves.
\* (ret << 32) | cell as u64: the high half is shifted out.
ShlOr(ret, cell) == <<ret[2], cell>>

\* ccmb64: the test that decides whether iteration i takes a cell.
CcmbTakes(count, i) == count - i <= 2

\* ccmb64's for loop: [r: Some(u64) | None, cells: what the iterator has left]
RECURSIVE ccmb64_loop(_, _, _, _)
ccmb64_loop(cells, count, i, ret) ==
    IF i >= count THEN [r |-> Some(ret), cells |-> cells]
    ELSE IF CcmbTakes(count, i)
    THEN IF cells = <<>> THEN [r |-> None, cells |-> cells]
         ELSE ccmb64_loop(Tail(cells), count, i + 1, ShlOr(ret, Head(cells)))
    ELSE ccmb64_loop(cells, count, i + 1, ret)

\* ccmb64
ccmb64(cells, count) ==
    IF count = 0 THEN [r |-> None, cells |-> cells]
    ELSE ccmb64_loop(cells, count, 0, <<0, 0>>)

\* The four 16-bit limbs of a + b with their carries, low limb first.
Limb0(a, b) == (a[2] % 65536) + (b[2] % 65536)
Limb1(a, b) == (a[2] \div 65536) + (b[2] \div 65536) + (Limb0(a, b) \div 65536)
Limb2(a, b) == (a[1] % 65536) + (b[1] % 65536) + (Limb1(a, b) \div 65536)
Limb3(a, b) == (a[1] \div 65536) + (b[1] \div 65536) + (Limb2(a, b) \div 65536)

\* base + size on u64 (wrapping at 2^64).
Add64(a, b) ==
    << (Limb3(a, b) % 65536) * 65536 + (Limb2(a, b) % 65536),
       (Limb1(a, b) % 65536) * 65536 + (Limb0(a, b) % 65536) >>

\* FdtNode::reg_u64: Some([start, end]) for base..base + size.
reg_u64_size(base, size) ==
    IF size.r = None THEN None
    ELSE Some([start |-> base, end |-> Add64(base, size.r.v)])

reg_u64_base(node, base) ==
    IF base.r = None THEN None
    ELSE reg_u64_size(base.r.v, ccmb64(base.cells, node.psize_cells))

reg_u64_cells(node, cells) ==
    IF cells.tag # "Some" THEN cells
    ELSE reg_u64_base(node, ccmb64(cells.v, node.paddr_cells))

reg_u64(node, strings) ==
    reg_u64_cells(node, prop_cells(node, strings, StrReg))

(***************************************************************************)
(* The blobs under query: what build.rs has dtc compile from a board's     *)
(* devicetree source, written per the format fdt.rs reads. A tree node is  *)
(* [name, props, kids], a property [name, val] with val its payload bytes. *)
(***************************************************************************)
\* The chain of nested nodes under the root's first child has at most
\* MaxDepth nodes.
MaxDepth == 3
\* #address-cells and #size-cells of the reg blobs are drawn from 0..MaxCellCount.
MaxCellCount == 3
\* The reg property of the reg blobs holds 0..MaxRegCells cells.
MaxRegCells == 5

\* u32::to_be_bytes, as dtc writes a cell.
to_be_bytes(n) ==
    << (n \div 16777216) % 256, (n \div 65536) % 256, (n \div 256) % 256, n % 256 >>

\* Zero padding up to the next multiple of four bytes.
RECURSIVE Pad4(_)
Pad4(bytes) == IF Len(bytes) % 4 = 0 THEN bytes ELSE Pad4(bytes \o <<0>>)

\* The string table: the property names, each NUL-terminated.
StrTab ==
    StrAddressCells \o <<0>> \o StrSizeCells \o <<0>> \o StrPhandle \o <<0>>
        \o StrReg \o <<0>> \o StrStdoutPath \o <<0>>

\* The offset of a property name in the string table.
StrOff(name) ==
    CHOOSE off \in 0..(Len(StrTab) - 1) :
        /\ off = 0 \/ StrTab[off] = 0
        /\ SubSeq(StrTab, off + 1, off + Len(name) + 1) = name \o <<0>>

\* FDT_PROP, len, nameoff, payload padded.
EncProp(p) ==
    to_be_bytes(Prop) \o to_be_bytes(Len(p.val)) \o to_be_bytes(StrOff(p.name))
        \o Pad4(p.val)

RECURSIVE EncProps(_)
EncProps(ps) == IF ps = <<>> THEN <<>> ELSE EncProp(Head(ps)) \o EncProps(Tail(ps))

\* FDT_BEGIN_NODE, name padded, properties, children, FDT_END_NODE.
RECURSIVE EncNode(_)
RECURSIVE EncKids(_)
EncKids(ks) == IF ks = <<>> THEN <<>> ELSE EncNode(Head(ks)) \o EncKids(Tail(ks))

EncNode(n) ==
    to_be_bytes(BeginNode) \o Pad4(n.name \o <<0>>) \o EncProps(n.props)
        \o EncKids(n.kids) \o to_be_bytes(EndNode)

\* The blob of a tree: the struct block ends with FDT_END.
Blob(root) ==
    [tree |-> root, tape |-> EncNode(root) \o to_be_bytes(End), strings |-> StrTab]

\* Node names: "a", "b", "a@1".
NameA == <<97>>
NameB == <<98>>
NameA1 == <<97, 64, 49>>

\* A node with an optional phandle property (ph = 0: none).
Mk(name, ph, kids) ==
    [name |-> name,
     props |-> IF ph = 0 THEN <<>>
               ELSE << [name |-> StrPhandle, val |-> to_be_bytes(ph)] >>,
     kids |-> kids]

\* The labels of a node: a, b, a@1 without phandle, b with phandle 1.
Labels == { <<NameA, 0>>, <<NameB, 0>>, <<NameA1, 0>>, <<NameB, 1>> }

\* The labels of the leaf that may follow the chain: a@1, b with phandle 1.
LeafLabels == { <<NameA1, 0>>, <<NameB, 1>> }

\* Chains of at most d nested nodes.
RECURSIVE Chains(_)
Chains(d) ==
    IF d <= 0 THEN {}
    ELSE { Mk(l[1], l[2], <<>>) : l \in Labels }
            \cup { Mk(l[1], l[2], <<k>>) : l \in Labels, k \in Chains(d - 1) }

\* Trees: the root "" with a chain as first child and at most one more leaf.
Trees ==
    { Mk(<<>>, 0, <<c>>) : c \in Chains(MaxDepth) }
        \cup { Mk(<<>>, 0, <<c, Mk(l[1], l[2], <<>>)>>) :
                   c \in Chains(MaxDepth), l \in LeafLabels }

\* The cells of the reg payloads: 0x1000, 0x100, 3, 4, 5, ...
RegCell(i) == IF i = 1 THEN 4096 ELSE IF i = 2 THEN 256 ELSE i

RECURSIVE CellBytes(_, _)
CellBytes(i, n) ==
    IF i > n THEN <<>> ELSE to_be_bytes(RegCell(i)) \o CellBytes(i + 1, n)

\* "n"
NameN == <<110>>

\* The root declares #address-cells = ac and #size-cells = sc; its child n
\* carries reg = the first k cells.
RegTree(ac, sc, k) ==
    [name |-> <<>>,
     props |-> << [name |-> StrAddressCells, val |-> to_be_bytes(ac)],
                  [name |-> StrSizeCells, val |-> to_be_bytes(sc)] >>,
     kids |-> << [name |-> NameN,
                  props |-> << [name |-> StrReg, val |-> CellBytes(1, k)] >>,
                  kids |-> <<>>] >>]

RegTrees ==
    { RegTree(ac, sc, k) : ac \in 0..MaxCellCount, sc \in 0..MaxCellCount,
                           k \in 0..MaxRegCells }

\* fdt::get(): the view as an entity, its parent cells the defaults.
View(blob) ==
    [name |-> <<>>, paddr_cells |-> RootAddressCells,
     psize_cells |-> RootSizeCells, body |-> blob.tape]

\* The handle of the root node: the first node the view's stream yields.
RootHandle(blob) == children(View(blob), blob.strings).nodes[1]

\* The entity a query is made on.
Entity(on) == IF on = "view" THEN View(fdt) ELSE RootHandle(fdt)

\* Query names: "a", "b", "a@1", "c".
Targets == { NameA, NameB, NameA1, <<99>> }

\* Paths: "/a", "a", "/b", "/a/b", "a/b", "/a/a", "/b/a", "/a/b/a", "/b/a/b",
\* "//a//b", "/a/", "/", "", "/c/a", "/a/c", "/a/a@1", "/a@1", "a/b\0".
Paths ==
    { <<47, 97>>, <<97>>, <<47, 98>>, <<47, 97, 47, 98>>, <<97, 47, 98>>,
      <<47, 97, 47, 97>>, <<47, 98, 47, 97>>, <<47, 97, 47, 98, 47, 97>>,
      <<47, 98, 47, 97, 47, 98>>, <<47, 47, 97, 47, 47, 98>>, <<47, 97, 47>>,
      <<47>>, <<>>, <<47, 99, 47, 97>>, <<47, 97, 47, 99>>,
      <<47, 97, 47, 97, 64, 49>>, <<47, 97, 64, 49>>, <<97, 47, 98, 0>> }

QueryOn == {"view", "root"}

\* One query is made on the blob.
NodeByName(on, target) ==
    /\ q = NoQuery
    /\ fdt.tree \in Trees
    /\ q' = [op |-> "node_by_name", on |-> on, arg |-> target,
             res |-> node_by_name(Entity(on), fdt.strings, target)]
    /\ UNCHANGED <<arena_start, arena_end, INITIALIZED, ARENA, token, held,
                   halted, initCount, last, fdt, SYSTEM_FDT, it>>

NodeByPath(on, path) ==
    /\ q = NoQuery
    /\ fdt.tree \in Trees
    /\ q' = [op |-> "node_by_path", on |-> on, arg |-> path,
             res |-> node_by_path(Entity(on), fdt.strings, path)]
    /\ UNCHANGED <<arena_start, arena_end, INITIALIZED, ARENA, token, held,
                   halted, initCount, last, fdt, SYSTEM_FDT, it>>

NodeByPhandle(on, id) ==
    /\ q = NoQuery
    /\ fdt.tree \in Trees
    /\ q' = [op |-> "node_by_phandle", on |-> on, arg |-> id,
             res |-> node_by_phandle(Entity(on), fdt.strings, id)]
    /\ UNCHANGED <<arena_start, arena_end, INITIALIZED, ARENA, token, held,
                   halted, initCount, last, fdt, SYSTEM_FDT, it>>

\* root.node_by_name("n").unwrap().reg_u64()
RegQuery(n, strings) ==
    IF n.tag # "Some" THEN [op |-> "reg_u64", on |-> "root", arg |-> n, res |-> n]
    ELSE [op |-> "reg_u64", on |-> "root", arg |-> n, res |-> reg_u64(n.v, strings)]

RegU64 ==
    /\ q = NoQuery
    /\ fdt.tree \in RegTrees
    /\ q' = RegQuery(node_by_name(RootHandle(fdt), fdt.strings, NameN),
                     fdt.strings)
    /\ UNCHANGED <<arena_start, arena_end, INITIALIZED, ARENA, token, held,
                   halted, initCount, last, fdt, SYSTEM_FDT, it>>

\* What init() has published for the blob: the view's two slices the queries
\* read.
Published(blob) == Some([dt_struct |-> blob.tape, dt_strings |-> blob.strings])

\* The arena is untouched; a blob is embedded and no query has been made.
InitFdt ==
    /\ arena_start = 0
    /\ arena_end = 0
    /\ INITIALIZED = FALSE
    /\ ARENA = None
    /\ token = "none"
    /\ held = <<>>
    /\ halted = "none"
    /\ initCount = 0
    /\ last = NoCall
    /\ fdt \in { Blob(t) : t \in Trees \cup RegTrees }
    /\ q = NoQuery
    /\ SYSTEM_FDT = Published(fdt)
    /\ it = NoStream

NextFdt ==
    \/ \E on \in QueryOn, target \in Targets : NodeByName(on, target)
    \/ \E on \in QueryOn, path \in Paths : NodeByPath(on, path)
    \/ \E on \in QueryOn, id \in 1..2 : NodeByPhandle(on, id)
    \/ RegU64

SpecFdt == InitFdt /\ [][NextFdt]_vars

(***************************************************************************)
(* Properties of the query engine, stated against the devicetree the blob  *)
(* was compiled from (fdt.tree).                                           *)
(***************************************************************************)
\* The handle a lookup is expected to return for the tree node k below a
\* parent with the default cells: its name, and its body up to and including
\* its closing FDT_END_NODE.
HandleOf(k) ==
    [name |-> k.name, paddr_cells |-> RootAddressCells,
     psize_cells |-> RootSizeCells,
     body |-> EncProps(k.props) \o EncKids(k.kids) \o to_be_bytes(EndNode)]

\* The immediate children, in the tree, of the entity a query was made on.
KidsOf(on) == IF on = "view" THEN <<fdt.tree>> ELSE fdt.tree.kids

\* name is "X@U" for X = stem.
IsUnitOf(name, stem) ==
    /\ Len(name) > Len(stem)
    /\ SubSeq(name, 1, Len(stem)) = stem
    /\ name[Len(stem) + 1] = 64
    /\ \A j \in 1..Len(stem) : stem[j] # 64

\* C6: node_by_name("X") on a node with an immediate child named "X@U" and
\* no immediate child named exactly "X" returns the handle of a child "X@U".
C6_UnitAddressMatch ==
    (q.op = "node_by_name" /\ q.on = "root")
        => LET kids == KidsOf(q.on)
               units == { j \in 1..Len(kids) : IsUnitOf(kids[j].name, q.arg) }
           IN (/\ units # {}
               /\ \A j \in 1..Len(kids) : kids[j].name # q.arg)
                  => \E j \in units : q.res = Some(HandleOf(kids[j]))

\* C7: node_by_name on a node returns absence when no immediate child
\* matches (by exact name or with the unit address ignored), and whatever it
\* returns is the handle of an immediate child, never of a nested node.
C7_ImmediateChildrenOnly ==
    (q.op = "node_by_name" /\ q.on = "root")
        => LET kids == KidsOf(q.on)
           IN /\ (\A j \in 1..Len(kids) :
                      /\ kids[j].name # q.arg
                      /\ ~IsUnitOf(kids[j].name, q.arg))
                  => q.res = None
              /\ q.res.tag = "Some"
                  => \E j \in 1..Len(kids) : q.res.v = HandleOf(kids[j])

\* path without its leading slashes.
RECURSIVE StripSlashes(_)
StripSlashes(path) ==
    IF path # <<>> /\ Head(path) = 47 THEN StripSlashes(Tail(path)) ELSE path

\* The position of the first slash of path, 0 when it has none.
FirstSlash(path) ==
    IF \E j \in 1..Len(path) : path[j] = 47
    THEN CHOOSE j \in 1..Len(path) :
             path[j] = 47 /\ \A m \in 1..(j - 1) : path[m] # 47
    ELSE 0

\* The segments of path: the non-empty pieces between its slashes.
RECURSIVE Segments(_)
SegmentsFrom(rest, at) ==
    IF rest = <<>> THEN <<>>
    ELSE IF at = 0 THEN <<rest>>
    ELSE <<SubSeq(rest, 1, at - 1)>> \o Segments(SubSeq(rest, at + 1, Len(rest)))

Segments(path) == SegmentsFrom(StripSlashes(path), FirstSlash(StripSlashes(path)))

\* node_by_name applied segment after segment, absence once one does not
\* resolve.
RECURSIVE Walk(_, _, _)
WalkOn(found, strings, segs) ==
    IF found.tag # "Some" THEN found ELSE Walk(found.v, strings, segs)

Walk(e, strings, segs) ==
    IF Len(segs) = 1 THEN node_by_name(e, strings, segs[1])
    ELSE WalkOn(node_by_name(e, strings, segs[1]), strings, Tail(segs))

\* node_by_name(head) followed by node_by_path(tail) on its result.
NameThenPath(found, strings, tail) ==
    IF found.tag # "Some" THEN found ELSE node_by_path(found.v, strings, tail)

PathSplitAt(e, strings, rest, at) ==
    NameThenPath(node_by_name(e, strings, SubSeq(rest, 1, at - 1)), strings,
                 SubSeq(rest, at + 1, Len(rest)))

PathSplit(e, strings, rest) == PathSplitAt(e, strings, rest, FirstSlash(rest))

\* C8: node_by_path on a path of several segments returns what node_by_name
\* of the first segment followed by node_by_path of the remainder returns
\* (leading slashes stripped); when a segment does not resolve the lookup
\* returns absence, and a node it returns is the one the segments resolve to
\* left to right.
C8_PathIsNameThenPath ==
    q.op = "node_by_path"
        => /\ FirstSlash(StripSlashes(q.arg)) # 0
               => q.res = PathSplit(Entity(q.on), fdt.strings,
                                    StripSlashes(q.arg))
           /\ Segments(q.arg) # <<>>
               => /\ Walk(Entity(q.on), fdt.strings, Segments(q.arg)) = None
                      => q.res = None
                  /\ q.res.tag = "Some"
                      => q.res = Walk(Entity(q.on), fdt.strings, Segments(q.arg))
           /\ Segments(q.arg) = <<>> => q.res = None

\* "/a/b/a" resolved on the root node through three segments.
C8_Witness ==
    /\ q.op = "node_by_path"
    /\ q.on = "root"
    /\ q.arg = <<47, 97, 47, 98, 47, 97>>
    /\ q.res.tag = "Some"
    /\ q.res.v.name = NameA

\* The tree node k carries phandle = id.
CarriesPhandle(k, id) ==
    \E j \in 1..Len(k.props) :
        k.props[j].name = StrPhandle /\ k.props[j].val = to_be_bytes(id)

\* The search order stated for node_by_phandle: the immediate children left
\* to right, then the search of each child left to right.
RECURSIVE SearchPhandle(_, _)
RECURSIVE SearchBelow(_, _, _)
SearchBelow(kids, j, id) ==
    IF j > Len(kids) THEN None
    ELSE IF SearchPhandle(kids[j].kids, id) # None
    THEN SearchPhandle(kids[j].kids, id)
    ELSE SearchBelow(kids, j + 1, id)

SearchPhandle(kids, id) ==
    IF \E j \in 1..Len(kids) : CarriesPhandle(kids[j], id)
    THEN Some(HandleOf(kids[CHOOSE j \in 1..Len(kids) :
                                 /\ CarriesPhandle(kids[j], id)
                                 /\ \A m \in 1..(j - 1) :
                                        ~CarriesPhandle(kids[m], id)]))
    ELSE SearchBelow(kids, 1, id)

\* C9: node_by_phandle returns the first node carrying the phandle in the
\* order: all immediate children left to right, then each child's subtree
\* left to right; of two carriers at different depths the shallower one.
C9_ShallowerFirst ==
    q.op = "node_by_phandle" => q.res = SearchPhandle(KidsOf(q.on), q.arg)

\* The cell counts the root of a reg blob declares and the cells of n's reg.
DeclaredAddressCells == from_be_bytes(fdt.tree.props[1].val)
DeclaredSizeCells == from_be_bytes(fdt.tree.props[2].val)
RegCells == chunks_u32(fdt.tree.kids[1].props[1].val)

\* The low 64 bits of a group of cells combined big-endian.
Low64(group) ==
    IF Len(group) = 1 THEN <<0, group[1]>>
    ELSE <<group[Len(group) - 1], group[Len(group)]>>

\* The range stated for reg_u64: base from the first ac cells, size from the
\* sc cells after them, absence when fewer than ac + sc cells are present.
RegRange(cells, ac, sc) ==
    IF Len(cells) < ac + sc THEN None
    ELSE Some([start |-> Low64(SubSeq(cells, 1, ac)),
               end |-> Add64(Low64(SubSeq(cells, 1, ac)),
                             Low64(SubSeq(cells, ac + 1, ac + sc)))])

\* C10: with at least one address cell and one size cell declared, reg_u64
\* returns base..base + size where base is the low 64 bits of the first
\* address-cells cells of reg and size the low 64 bits of the size-cells
\* cells after them, and absence when reg holds fewer cells than that.
C10_RegRange ==
    (q.op = "reg_u64" /\ DeclaredAddressCells >= 1 /\ DeclaredSizeCells >= 1)
        => q.res = RegRange(RegCells, DeclaredAddressCells, DeclaredSizeCells)

(***************************************************************************)
(* fdt.rs: the typed projections of prop_raw, and the blobs they are       *)
(* applied to: the root with one node "chosen" carrying one property.      *)
(***************************************************************************)
\* FdtStreamable::prop_str: .map(|bytes| str::from_utf8(bytes).ok()).flatten()
prop_str_raw(raw) ==
    IF raw.tag # "Some" THEN raw
    ELSE IF from_utf8_ok(raw.v) THEN Some(raw.v) ELSE None

prop_str(e, strings, target) == prop_str_raw(prop_raw(e, strings, target))

\* BEu32::new keeps the four bytes as they lie in memory; BEu32::get reads
\* them as a big-endian number.
BEu32_new(bytes) == [be |-> bytes]
BEu32_get(x) == from_be_bytes(x.be)

\* FdtStreamable::prop_phandle:
\* .map(|bytes| bytes.try_into().ok().map(BEu32::new)).flatten()
prop_phandle_raw(raw) ==
    IF raw.tag # "Some" THEN raw
    ELSE IF Len(raw.v) = 4 THEN Some(BEu32_new(raw.v)) ELSE None

prop_phandle(e, strings, target) ==
    prop_phandle_raw(prop_raw(e, strings, target))

\* "chosen"
NameChosen == <<99, 104, 111, 115, 101, 110>>

\* "/soc/uart@1000"
TextUart == <<47, 115, 111, 99, 47, 117, 97, 114, 116, 64, 49, 48, 48, 48>>

\* Property payloads: empty, of 1, 3, 4, 5 and 8 bytes, NUL-terminated texts,
\* and byte strings that are not UTF-8 (of 2, 4 and 5 bytes). The first byte
\* of a payload of four bytes or more is below 128, which keeps its value as
\* a u32 below 2^31.
Payloads ==
    { <<>>, <<1>>, <<0, 0, 1>>, <<0, 0, 0, 1>>, <<0, 0, 0, 1, 2>>,
      <<0, 0, 0, 1, 0, 0, 0, 2>>, TextUart \o <<0>>, <<97, 0>>, <<97, 98, 99, 0>>,
      <<255, 0>>, <<97, 255, 254, 0>>, <<97, 98, 99, 255, 0>> }

PropNames == { StrStdoutPath, StrReg, StrPhandle }

\* / { chosen { name = payload; }; };
PropTree(name, payload) ==
    [name |-> <<>>, props |-> <<>>,
     kids |-> << [name |-> NameChosen,
                  props |-> << [name |-> name, val |-> payload] >>,
                  kids |-> <<>>] >>]

PropTrees == { PropTree(name, payload) : name \in PropNames, payload \in Payloads }

\* The query record of an accessor applied to the node a lookup returned.
PropQuery(op, target, n, res) ==
    [op |-> op, on |-> "chosen", arg |-> target,
     res |-> IF n.tag # "Some" THEN n ELSE res]

\* fdt::get().node_by_name("chosen")
Chosen == node_by_name(View(fdt), fdt.strings, NameChosen)

\* ...node_by_name("chosen").unwrap().prop_u32(target)
PropU32(target) ==
    /\ q = NoQuery
    /\ fdt.tree \in PropTrees
    /\ q' = PropQuery("prop_u32", target, Chosen,
                      prop_u32(Chosen.v, fdt.strings, target))
    /\ UNCHANGED <<arena_start, arena_end, INITIALIZED, ARENA, token, held,
                   halted, initCount, last, fdt, SYSTEM_FDT, it>>

\* ...prop_str(target)
PropStr(target) ==
    /\ q = NoQuery
    /\ fdt.tree \in PropTrees
    /\ q' = PropQuery("prop_str", target, Chosen,
                      prop_str(Chosen.v, fdt.strings, target))
    /\ UNCHANGED <<arena_start, arena_end, INITIALIZED, ARENA, token, held,
                   halted, initCount, last, fdt, SYSTEM_FDT, it>>

\* ...prop_phandle(target)
PropPhandle(target) ==
    /\ q = NoQuery
    /\ fdt.tree \in PropTrees
    /\ q' = PropQuery("prop_phandle", target, Chosen,
                      prop_phandle(Chosen.v, fdt.strings, target))
    /\ UNCHANGED <<arena_start, arena_end, INITIALIZED, ARENA, token, held,
                   halted, initCount, last, fdt, SYSTEM_FDT, it>>

InitProp ==
    /\ arena_start = 0
    /\ arena_end = 0
    /\ INITIALIZED = FALSE
    /\ ARENA = None
    /\ token = "none"
    /\ held = <<>>
    /\ halted = "none"
    /\ initCount = 0
    /\ last = NoCall
    /\ fdt \in { Blob(t) : t \in PropTrees }
    /\ q = NoQuery
    /\ SYSTEM_FDT = Published(fdt)
    /\ it = NoStream

NextProp ==
    \/ \E target \in PropNames : PropU32(target)
    \/ \E target \in PropNames : PropStr(target)
    \/ \E target \in PropNames : PropPhandle(target)

SpecProp == InitProp /\ [][NextProp]_vars

\* The payload of chosen's property when the query named that property.
Queried == q.arg = fdt.tree.kids[1].props[1].name
Payload == fdt.tree.kids[1].props[1].val

\* C11: when the property exists and its payload does not fit the projection
\* (fewer than 4 bytes for prop_u32, a length other than 4 for prop_phandle,
\* bytes that are not UTF-8 for prop_str) the accessor returns absence; no
\* accessor panics.
C11_MisfitIsAbsence ==
    (q.op \in {"prop_u32", "prop_str", "prop_phandle"} /\ Queried)
        => /\ q.res # Panic
           /\ (q.op = "prop_u32" /\ Len(Payload) < 4) => q.res = None
           /\ (q.op = "prop_phandle" /\ Len(Payload) # 4) => q.res = None
           /\ (q.op = "prop_str" /\ \E j \in 1..Len(Payload) : Payload[j] = 255)
                  => q.res = None

\* C13: prop_str of a property whose payload is a text followed by its NUL
\* terminator returns exactly the text, without the NUL.
C13_TextWithoutNul ==
    (/\ q.op = "prop_str"
     /\ Queried
     /\ Len(Payload) > 0
     /\ \A j \in 1..Len(Payload) :
            IF j = Len(Payload) THEN Payload[j] = 0
            ELSE Payload[j] > 0 /\ Payload[j] < 128)
        => q.res = Some(SubSeq(Payload, 1, Len(Payload) - 1))

(***************************************************************************)
(* The queries over arbitrary struct tapes, malformed ones included. A     *)
(* tape is a sequence of 4-byte words, possibly cut short inside a word.   *)
(***************************************************************************)
\* A tape under query has at most MaxTapeWords whole words.
MaxTapeWords == 3

\* The words a tape is made of: the tokens BEGIN_NODE, END_NODE, PROP, END;
\* 0 (an empty name, a length 0, the name offset of "#address-cells"); 4 (NOP,
\* a length 4); 27 (the name offset of "phandle"); the name "a" padded; four
\* letters without terminator; 64 (a length that runs past the tape).
Words ==
    { to_be_bytes(BeginNode), to_be_bytes(EndNode), to_be_bytes(Prop),
      to_be_bytes(End), <<0, 0, 0, 0>>, <<0, 0, 0, 4>>, <<0, 0, 0, 27>>,
      <<97, 0, 0, 0>>, <<97, 97, 97, 97>>, <<0, 0, 0, 64>> }

\* The tapes of at most n whole words.
RECURSIVE WordTapes(_)
WordTapes(n) ==
    IF n <= 0 THEN { <<>> }
    ELSE { <<>> } \cup { w \o t : w \in Words, t \in WordTapes(n - 1) }

\* ... and those cut two bytes into one more word.
Tapes(n) == WordTapes(n) \cup { t \o <<0, 0>> : t \in WordTapes(n) }

\* The operations of the query engine, each with one argument.
TapeOps ==
    { "address_cells", "size_cells", "node_by_name", "node_by_path",
      "node_by_phandle", "prop_raw" }

\* What the operation returns on the entity e.
TapeResult(op, e, strings) ==
    CASE op = "address_cells" -> address_cells(e, strings)
      [] op = "size_cells" -> size_cells(e, strings)
      [] op = "node_by_name" -> node_by_name(e, strings, NameA)
      [] op = "node_by_path" -> node_by_path(e, strings, <<47, 97>>)
      [] op = "node_by_phandle" -> node_by_phandle(e, strings, 1)
      [] op = "prop_raw" -> prop_raw(e, strings, StrPhandle)

\* One operation is applied to the view over the tape.
QueryTape(op) ==
    /\ q = NoQuery
    /\ q' = [op |-> op, on |-> "view",
             res |-> TapeResult(op, View(fdt), fdt.strings)]
    /\ UNCHANGED <<arena_start, arena_end, INITIALIZED, ARENA, token, held,
                   halted, initCount, last, fdt, SYSTEM_FDT, it>>

InitTape ==
    /\ arena_start = 0
    /\ arena_end = 0
    /\ INITIALIZED = FALSE
    /\ ARENA = None
    /\ token = "none"
    /\ held = <<>>
    /\ halted = "none"
    /\ initCount = 0
    /\ last = NoCall
    /\ fdt \in { [tape |-> t, strings |-> StrTab] : t \in Tapes(MaxTapeWords) }
    /\ q = NoQuery
    /\ SYSTEM_FDT = Published(fdt)
    /\ it = NoStream

NextTape == \E op \in TapeOps : QueryTape(op)

SpecTape == InitTape /\ [][NextTape]_vars

\* C12: on every tape, malformed or not, address_cells, size_cells,
\* node_by_name, node_by_path, node_by_phandle and prop_raw return (a value
\* or absence): none of them panics.
C12_NoPanicOnAnyTape == q.op \in TapeOps => q.res # Panic

(***************************************************************************)
(* fdt.rs: init() and get(). Here fdt.mem is the memory from the symbol    *)
(* fdt_blob on: the blob (its first totalsize bytes) and what the linker   *)
(* placed behind it.                                                       *)
(***************************************************************************)
\* The memory behind the 40-byte header holds at most MaxChunks 16-byte chunks.
MaxChunks == 3

\* const FDT_MAGIC: u32 = 0xD00DFEED, as its two 16-bit halves 0xD00D, 0xFEED.
FDT_MAGIC == <<53261, 65261>>

\* BEu32::get of a value at or above 2^31, as its two 16-bit halves.
BEu32_get_halves(x) == <<x.be[1] * 256 + x.be[2], x.be[3] * 256 + x.be[4]>>

\* BEu64::get, as the pair <<high cell, low cell>>.
BEu64_get(bytes) ==
    <<from_be_bytes(SubSeq(bytes, 1, 4)), from_be_bytes(SubSeq(bytes, 5, 8))>>

\* The i-th BEu32 field of the header (#[repr(C)], i from 0).
HeaderField(mem, i) == BEu32_new(SubSeq(mem, 4 * i + 1, 4 * i + 4))

\* core::ptr::read(start as *const FdtHeader)
FdtHeader(mem) ==
    [magic |-> HeaderField(mem, 0), totalsize |-> HeaderField(mem, 1),
     off_dt_struct |-> HeaderField(mem, 2), off_dt_strings |-> HeaderField(mem, 3),
     off_mem_rsvmap |-> HeaderField(mem, 4), version |-> HeaderField(mem, 5),
     last_comp_version |-> HeaderField(mem, 6),
     boot_cpuid_phys |-> HeaderField(mem, 7),
     size_dt_strings |-> HeaderField(mem, 8), size_dt_struct |-> HeaderField(mem, 9)]

\* if header.magic.get() != FDT_MAGIC, with a comparison of the high half only
\* in its place.
MagicMismatchHigh(header) == BEu32_get_halves(header.magic)[1] # FDT_MAGIC[1]

\* if header.magic.get() != FDT_MAGIC
MagicMismatch(header) == BEu32_get_halves(header.magic) # FDT_MAGIC

\* &data[off..off + size]: the range [off, end) of the blob, or a panic.
Subslice(data, off, size) ==
    IF off + size <= Len(data) THEN Some([off |-> off, end |-> off + size])
    ELSE Panic

\* FdtHeader::dt_struct
dt_struct(header, data) ==
    Subslice(data, BEu32_get(header.off_dt_struct),
             BEu32_get(header.size_dt_struct))

\* FdtHeader::dt_strings
dt_strings(header, data) ==
    Subslice(data, BEu32_get(header.off_dt_strings),
             BEu32_get(header.size_dt_strings))

\* address == 0 && size == 0 for the entry at ptr.add(count)
IsSentinel(mem, at) ==
    /\ BEu64_get(SubSeq(mem, at + 1, at + 8)) = <<0, 0>>
    /\ BEu64_get(SubSeq(mem, at + 9, at + 16)) = <<0, 0>>

\* FdtHeader::mem_rsvmap: the loop over raw pointers into the memory. It ends
\* at a sentinel, or leaves the modelled memory ("behind").
RECURSIVE rsv_scan(_, _, _)
rsv_scan(mem, off, count) ==
    IF off + 16 * (count + 1) > Len(mem)
    THEN [off |-> off, count |-> count, ended |-> "behind"]
    ELSE IF IsSentinel(mem, off + 16 * count)
    THEN [off |-> off, count |-> count, ended |-> "sentinel"]
    ELSE rsv_scan(mem, off, count + 1)

\* FdtHeader::mem_rsvmap: data[off..] panics when off is behind the blob.
mem_rsvmap(header, data, mem) ==
    IF BEu32_get(header.off_mem_rsvmap) > Len(data) THEN Panic
    ELSE Some(rsv_scan(mem, BEu32_get(header.off_mem_rsvmap), 0))

\* The offset behind the last byte the reservation scan read.
RsvReadEnd(rsv) == rsv.off + 16 * (rsv.count + 1)

PanicMagic == "FDT magic number mismatch"
PanicNoFdt == "FDT not initialized"
PanicIndex == "range end index out of range for slice"
\* The scan ran into memory that cannot be read.
Fault == "fault"

\* The record of an init() call: how it ended and how far it read.
InitCall(res, read_end) ==
    [op |-> "init", res |-> res, read_end |-> read_end, before |-> SYSTEM_FDT]

\* init() stops with a panic (or fault) before the view is stored.
InitHalts(message, read_end) ==
    /\ halted' = message
    /\ q' = InitCall(Panic, read_end)
    /\ UNCHANGED SYSTEM_FDT

\* let view = FdtView { .. }; *SYSTEM_FDT.0.get() = Some(view);
InitPublishes(data, st, strs, rsv, ended) ==
    /\ SYSTEM_FDT' = Some([data |-> Len(data), dt_struct |-> st, dt_strings |-> strs,
                           mem_rsvmap |-> [off |-> rsv.off, count |-> rsv.count,
                                           ended |-> ended]])
    /\ q' = InitCall(None, RsvReadEnd(rsv))
    /\ UNCHANGED halted

\* init() once the magic has been accepted and data formed.
InitView(data, st, strs, rsv) ==
    IF st = Panic \/ strs = Panic THEN InitHalts(PanicIndex, 40)
    ELSE IF rsv = Panic THEN InitHalts(PanicIndex, 40)
    ELSE IF rsv.v.ended = "sentinel"
    THEN InitPublishes(data, st.v, strs.v, rsv.v, "sentinel")
    ELSE \/ InitHalts(Fault, RsvReadEnd(rsv.v))
         \/ InitPublishes(data, st.v, strs.v, rsv.v, "behind")

InitBody(mem, header, data) ==
    IF MagicMismatch(header) THEN InitHalts(PanicMagic, 40)
    ELSE InitView(data, dt_struct(header, data), dt_strings(header, data),
                  mem_rsvmap(header, data, mem))

\* fdt::init()
fdt_init ==
    /\ halted = "none"
    /\ InitBody(fdt.mem, FdtHeader(fdt.mem),
                SubSeq(fdt.mem, 1, BEu32_get(FdtHeader(fdt.mem).totalsize)))
    /\ UNCHANGED <<arena_start, arena_end, INITIALIZED, ARENA, token, held,
                   initCount, last, fdt, it>>

\* fdt::get(): (*SYSTEM_FDT.0.get()).as_ref().expect("FDT not initialized")
fdt_get ==
    /\ halted = "none"
    /\ IF SYSTEM_FDT = None
       THEN /\ halted' = PanicNoFdt
            /\ q' = [op |-> "get", res |-> Panic, before |-> SYSTEM_FDT]
       ELSE /\ q' = [op |-> "get", res |-> SYSTEM_FDT, before |-> SYSTEM_FDT]
            /\ UNCHANGED halted
    /\ UNCHANGED <<arena_start, arena_end, INITIALIZED, ARENA, token, held,
                   initCount, last, fdt, SYSTEM_FDT, it>>

\* The magic words 0xD00DFEED, 0xDEADBEEF, 0xD00DBEEF as they lie in memory.
MagicGood == <<208, 13, 254, 237>>
MagicWords == { MagicGood, <<222, 173, 190, 239>>, <<208, 13, 190, 239>> }

\* A reservation entry (0x1000, 0x100) and the sentinel (0, 0).
Entry16 == <<0, 0, 0, 0, 0, 0, 16, 0, 0, 0, 0, 0, 0, 0, 1, 0>>
Zero16 == <<0, 0, 0, 0, 0, 0, 0, 0, 0, 0, 0, 0, 0, 0, 0, 0>>

\* The memory behind the header: at most n chunks.
RECURSIVE ChunkSeqs(_)
ChunkSeqs(n) ==
    IF n <= 0 THEN { <<>> }
    ELSE { <<>> } \cup { c \o r : c \in {Entry16, Zero16}, r \in ChunkSeqs(n - 1) }

\* The header (version 17, last compatible version 16, boot CPU 0) and the
\* memory behind it.
Image(magic, totalsize, off_rsv, size_struct, size_strings, rest) ==
    [mem |-> magic \o to_be_bytes(totalsize) \o to_be_bytes(40) \o to_be_bytes(40)
                \o to_be_bytes(off_rsv) \o to_be_bytes(17) \o to_be_bytes(16)
                \o to_be_bytes(0) \o to_be_bytes(size_strings)
                \o to_be_bytes(size_struct) \o rest]

\* The images: the blob ends at a chunk boundary at or before the end of the
\* memory; the reservation block starts at 40, at 56, or behind everything;
\* the struct and string blocks start at 40 and have 16 or 64 bytes.
Images ==
    { Image(magic, 40 + 16 * k, off_rsv, size_struct, size_strings, rest) :
        magic \in MagicWords, k \in 0..MaxChunks,
        off_rsv \in {40, 56, 56 + 16 * MaxChunks},
        size_struct \in {16, 64}, size_strings \in {16, 64},
        rest \in ChunkSeqs(MaxChunks) }

\* Nothing has been initialised; the blob is embedded in the image.
InitInit ==
    /\ arena_start = 0
    /\ arena_end = 0
    /\ INITIALIZED = FALSE
    /\ ARENA = None
    /\ token = "none"
    /\ held = <<>>
    /\ halted = "none"
    /\ initCount = 0
    /\ last = NoCall
    /\ fdt \in { i \in Images : BEu32_get(FdtHeader(i.mem).totalsize) <= Len(i.mem) }
    /\ q = NoQuery
    /\ SYSTEM_FDT = None
    /\ it = NoStream

NextInit == fdt_init \/ fdt_get

SpecInit == InitInit /\ [][NextInit]_vars

\* C14: a view is published only by an init() that saw the magic 0xD00DFEED:
\* get() before any init() halts with "FDT not initialized", init() on a
\* wrong magic halts without publishing, and whatever get() returns is the
\* published view of a blob with the right magic.
C14_ViewOnlyAfterGoodInit ==
    /\ SYSTEM_FDT # None => SubSeq(fdt.mem, 1, 4) = MagicGood
    /\ (q.op = "get" /\ q.before = None)
           => (q.res = Panic /\ halted = PanicNoFdt)
    /\ (q.op = "get" /\ q.res # Panic)
           => (q.res = SYSTEM_FDT /\ q.res.tag = "Some"
                 /\ SubSeq(fdt.mem, 1, 4) = MagicGood)
    /\ (q.op = "init" /\ SubSeq(fdt.mem, 1, 4) # MagicGood)
           => (q.res = Panic /\ halted = PanicMagic /\ SYSTEM_FDT = None)

\* get() returned the view an earlier init() published.
C14_Witness ==
    /\ q.op = "get"
    /\ q.res.tag = "Some"
    /\ q.before # None
    /\ halted = "none"

\* The blob's totalsize as the header states it.
TotalSize == from_be_bytes(SubSeq(fdt.mem, 5, 8))

\* C15: init() reads no byte at or behind totalsize, and the slices of the
\* published view (struct block, string block, reservation entries) lie
\* within [0, totalsize).
C15_ReadsWithinBlob ==
    /\ q.op = "init" => q.read_end <= TotalSize
    /\ SYSTEM_FDT # None
           => /\ SYSTEM_FDT.v.dt_struct.end <= TotalSize
              /\ SYSTEM_FDT.v.dt_strings.end <= TotalSize
              /\ SYSTEM_FDT.v.mem_rsvmap.off + 16 * SYSTEM_FDT.v.mem_rsvmap.count
                     <= TotalSize
              /\ SYSTEM_FDT.v.mem_rsvmap.ended = "sentinel"

(***************************************************************************)
(* fdt.rs: the node iterator, driven call by call. The stream `it` is the  *)
(* one FdtStreamable::stream() builds over a tape (cursor 0); it.res is    *)
(* what the last next() returned, it.moved the number of calls that moved  *)
(* the cursor and it.yielded the number of handles returned.               *)
(***************************************************************************)
Unpolled == [tag |-> "Unpolled"]

\* The stream after a call of next() that ended as step.
Polled(step) ==
    [tape |-> it.tape, off |-> step.off, res |-> step.r,
     moved |-> IF step.off # it.off THEN it.moved + 1 ELSE it.moved,
     yielded |-> IF step.r.tag = "Some" THEN it.yielded + 1 ELSE it.yielded]

\* Iterator::next on the stream
next ==
    /\ it.tape = fdt.tape
    /\ it.res # Panic
    /\ it' = Polled(stream_next(it.tape, it.off, RootAddressCells, RootSizeCells))
    /\ UNCHANGED <<arena_start, arena_end, INITIALIZED, ARENA, token, held,
                   halted, initCount, last, fdt, q, SYSTEM_FDT>>

\* A fresh stream over a tape.
InitStream ==
    /\ arena_start = 0
    /\ arena_end = 0
    /\ INITIALIZED = FALSE
    /\ ARENA = None
    /\ token = "none"
    /\ held = <<>>
    /\ halted = "none"
    /\ initCount = 0
    /\ last = NoCall
    /\ fdt \in { [tape |-> t, strings |-> StrTab] : t \in Tapes(MaxTapeWords) }
    /\ q = NoQuery
    /\ SYSTEM_FDT = Published(fdt)
    /\ it = [tape |-> fdt.tape, off |-> 0, res |-> Unpolled, moved |-> 0,
             yielded |-> 0]

NextStream == next

SpecStream == InitStream /\ [][NextStream]_vars

\* A call of next(): the cursor does not move backwards, a call that returns
\* a handle or reads a token moves it forwards by at least one word, and a
\* call that leaves it in place returns end-of-sequence.
NextAdvances ==
    /\ it'.off >= it.off
    /\ it'.res.tag = "Some" => it'.off >= it.off + 4
    /\ it.off + 4 <= Len(it.tape) => it'.off >= it.off + 4
    /\ it'.off = it.off => it'.res = None

\* The calls that moved the cursor, and with them the handles yielded, are
\* bounded by the tape length in words; a handle's body lies in the tape; no
\* call panics.
StreamBounded ==
    /\ it.moved * 4 <= Len(it.tape)
    /\ it.yielded <= it.moved
    /\ it.res # Panic
    /\ it.res.tag = "Some" => Len(it.res.v.body) <= Len(it.tape)

====
